---- MODULE Spec2Model ----
(***************************************************************************)
(* Model of the openLCA MCP server (mcp-server/src/server.py): the global  *)
(* client, the active-results table, the tool catalog, the dispatch in     *)
(* call_tool and the ten tool handlers.  Each handler is a sequence of     *)
(* steps, one per statement group that can raise (argument access, client  *)
(* creation, one library call that goes to the remote openLCA store).      *)
(***************************************************************************)
EXTENDS Integers, Sequences, FiniteSets, TLC

(* ---------------------------- bounds ----------------------------------- *)
NumTasks == 2
MaxResults == 2
MaxConnectAttempts == 3
MaxExchanges == 2
\* the script's inputs: characters per keyword and per flow name, keywords
\* per search, flows in the store, matches shown, providers per flow, units
\* per unit group
MaxKwLen == 2
MaxNameLen == 2
MaxKeywords == 2
MaxNames == 2
MaxShown == 2
MaxProviders == 2
MaxUnits == 2
\* iterations of one Monte Carlo run
MaxIterations == 3
\* items of one contribution result
MaxItems == 3
\* values of one scenario analysis
MaxValues == 2
\* exports of one batch
MaxExports == 3

Tasks == 1..NumTasks
Handles == 1..MaxResults
Addr == 1..MaxResults

VARIABLES
  phase,            \* position of main(): "starting", then "serving"
  startupFailed,    \* the creation of the client raised in main()
  _client,          \* the global _client: 0 is None, else the client object
  clientsCreated,   \* number of OLCAClient objects constructed
  connectAttempts,  \* number of OLCAClient(...) constructor calls
  _active_results,  \* the global dict result_id -> result handle
  obtained,         \* number of result handles simple_calculation has returned
  releases,         \* per handle: number of dispose() calls that returned
  tried,            \* handles on which dispose() has been called
  announced,        \* handles whose result_id a caller has received
  inv,              \* per task: the tool invocation it is executing
  running,          \* the task that holds the event loop (0: none)
  environ,          \* os.environ: the values of OPENLCA_HOST and OPENLCA_PORT
  endpoint,         \* host and port the client object was created with
  script,           \* the LCA script (examples/test-pet-pc.py): its position
                    \* and the operation it has just run
  mc,               \* the run of run_monte_carlo in progress
  expired,          \* the result_ids whose entry dispose_result has deleted
  lib               \* the call in progress of an operation that is looked
                    \* at on its own: the library's contributions, scenarios
                    \* and export, the exchange loop of handle_create_process

vars == <<phase, startupFailed, _client, clientsCreated, connectAttempts,
          _active_results, obtained, releases, tried, announced, inv, running,
          environ, endpoint, script, mc, lib, expired>>

(* --------------------------- tool catalog ------------------------------ *)
\* the tools list_tools() returns
list_tools ==
  {"test_connection", "search_flows", "search_processes",
   "search_impact_methods", "find_providers", "create_product_flow",
   "create_process", "create_product_system", "calculate_impacts",
   "analyze_contributions", "run_monte_carlo", "export_results",
   "dispose_result"}

\* the keys of the TOOL_HANDLERS dict
TOOL_HANDLERS ==
  {"search_flows", "search_processes", "search_impact_methods",
   "find_providers", "create_product_flow", "create_process",
   "create_product_system", "calculate_impacts", "dispose_result",
   "test_connection"}

\* names a caller may send: the catalog, the handled names, and a name that
\* is declared as a Tool but neither listed nor handled
ToolNames == list_tools \cup TOOL_HANDLERS \cup {"list_databases"}

(* ----------------------------- responses ------------------------------- *)
NoResponse == [success |-> FALSE, keys |-> {}, error |-> "", result_id |-> ""]

\* json.dumps({"success": False, "error": msg})
ErrorResponse(msg) ==
  [success |-> FALSE, keys |-> {"success", "error"}, error |-> msg,
   result_id |-> ""]

\* json.dumps({"success": True, <payload keys>...})
SuccessResponse(payload, rid) ==
  [success |-> TRUE, keys |-> {"success"} \cup payload, error |-> "",
   result_id |-> rid]

\* variant: the "not found" answer also carries a (null) method payload
MethodNotFoundResponseWithPayload ==
  [success |-> FALSE, keys |-> {"success", "error", "method"},
   error |-> "Impact method not found with keywords", result_id |-> ""]

\* the else branch of handle_search_impact_methods
MethodNotFoundResponse == ErrorResponse("Impact method not found with keywords")

\* the else branch of handle_dispose_result
ResultNotFoundResponse(rid) == ErrorResponse("Result " \o rid \o " not found")

\* the "not handler" branch of call_tool
UnknownToolResponse(name) == ErrorResponse("Unknown tool: " \o name)

(* ------------------------- result identifiers -------------------------- *)
\* result_id = str(id(result)): the decimal string of the object's address
ResultId(addr) == ToString(addr)

\* variant: a new result object may get the address of a result that is alive
FreeAddrAny(table) == Addr

\* addresses a new result object can get: id() is unique among the objects
\* that are alive, and the results alive are those the table references
FreeAddr(table) == {a \in Addr : ResultId(a) \notin DOMAIN table}

\* result_id strings a caller may send to dispose_result
CallerKeys == {ResultId(a) : a \in Addr} \cup {"unknown"}

\* variant: the result is not stored
StoreResultSkip(table, rid, h) == table

\* variant: storing a result drops the other entries
StoreResultEvict(table, rid, h) == [k \in {rid} |-> h]

\* _active_results[result_id] = result
StoreResult(table, rid, h) ==
  [k \in DOMAIN table \cup {rid} |-> IF k = rid THEN h ELSE table[k]]

\* variant: the entry is not deleted
DeleteResultKeep(table, rid) == table

\* del _active_results[result_id]
DeleteResult(table, rid) == [k \in DOMAIN table \ {rid} |-> table[k]]

\* variant: the membership test is skipped
DisposeLookupAlways(table, rid) == TRUE

\* result_id in _active_results
DisposeLookup(table, rid) == rid \in DOMAIN table

(* --------------------------- invocations ------------------------------- *)
NoArgs ==
  [isDict |-> TRUE, keywords |-> FALSE, flow_type |-> "none",
   ident |-> "none", method |-> "none", name |-> FALSE,
   exchanges |-> <<>>, hasExchanges |-> FALSE, result_id |-> "missing"]

Idle ==
  [pc |-> "idle", tool |-> "", args |-> NoArgs, client |-> 0, rid |-> "",
   h |-> 0, i |-> 0, calls |-> <<>>, exc |-> "", resp |-> NoResponse]

ExchangeLists ==
  UNION {[1..n -> [provider : BOOLEAN]] : n \in 0..MaxExchanges}

\* the arguments values a caller may send with a tool name
ArgsFor(name) ==
  {[NoArgs EXCEPT !.isDict = FALSE]} \cup
  CASE name \in {"search_flows"} ->
         {[NoArgs EXCEPT !.keywords = k, !.flow_type = f] :
            k \in BOOLEAN, f \in {"none", "valid", "invalid"}}
    [] name \in {"search_processes", "search_impact_methods"} ->
         {[NoArgs EXCEPT !.keywords = k] : k \in BOOLEAN}
    [] name \in {"find_providers", "create_product_system"} ->
         {[NoArgs EXCEPT !.ident = x] : x \in {"id", "name", "none"}}
    [] name = "create_product_flow" ->
         {[NoArgs EXCEPT !.name = n] : n \in BOOLEAN}
    [] name = "create_process" ->
         {[NoArgs EXCEPT !.name = TRUE, !.hasExchanges = TRUE, !.exchanges = e] :
            e \in ExchangeLists}
         \cup {[NoArgs EXCEPT !.name = n] : n \in BOOLEAN}
    [] name = "calculate_impacts" ->
         {[NoArgs EXCEPT !.ident = x, !.method = m] :
            x \in {"id", "name", "none"}, m \in {"id", "keywords", "none"}}
    [] name = "dispose_result" ->
         {[NoArgs EXCEPT !.result_id = r] : r \in CallerKeys \cup {"missing"}}
    [] OTHER -> {NoArgs}

(* ------------------------ exceptions and awaits ------------------------ *)
ExceptionKinds ==
  {"KeyError", "TypeError", "AttributeError", "ConnectError", "RemoteError",
   "SerializationError", "ValueError"}

\* variant: the handlers catch "except KeyError" only
HandlerCatchesKeyErrorOnly == {"KeyError"}

\* what the "except Exception as e" clause of every handler catches
HandlerCatches == ExceptionKinds

\* variant: dispose_result awaits between the membership test and the release
SuspendPointsAwaitInDispose == {"dispose_release"}

\* the positions inside the handler bodies where the coroutine awaits and
\* gives the event loop to another task: the handler bodies hold no await
SuspendPoints == {}

NextRunning(t, rec) ==
  IF rec.pc \in SuspendPoints \cup {"idle"} THEN 0 ELSE t

CanStep(t) ==
  \/ running = t
  \/ running = 0 /\ inv[t].pc \in SuspendPoints

\* return the response of the handler
Done(rec, r) == [rec EXCEPT !.pc = "done", !.resp = r]

\* an exception of the given kind is raised inside the try block
Raised(rec, kind) ==
  IF kind \in HandlerCatches
  THEN [rec EXCEPT !.pc = "done", !.exc = kind, !.resp = ErrorResponse(kind)]
  ELSE [rec EXCEPT !.pc = "raised", !.exc = kind]

\* one remote call is issued from the given call site
Called(rec, site, outcome) ==
  [rec EXCEPT !.calls = Append(@, <<site, outcome>>)]

\* variant: a failed remote call is issued again
RemoteFailureRetry(rec, site) == Called(rec, site, "fail")

\* the remote call of the given site raises
RemoteFailure(rec, site) == Raised(Called(rec, site, "fail"), "RemoteError")

Update(t, rec) ==
  /\ inv' = [inv EXCEPT ![t] = rec]
  /\ running' = NextRunning(t, rec)

\* no call of the library's analyses is in progress
LibIdle ==
  [pc |-> "idle", op |-> "", in |-> <<>>, out |-> <<>>, i |-> 0,
   calls |-> <<>>, held |-> {}, err |-> ""]

\* no Monte Carlo run is in progress
McIdle ==
  [pc |-> "idle", iterations |-> 0, i |-> 0, callback |-> FALSE,
   samples |-> <<>>, held |-> {}, obtained |-> 0, released |-> 0,
   progress |-> <<>>, failedCall |-> "", out |-> "none"]

(* ------------------ the LCA script: examples/test-pet-pc.py ------------ *)
\* text is a sequence of characters; "A" is the upper-case form of "a"
Chars == {"a", "A", "b"}
Strs(n) == UNION {[1..k -> Chars] : k \in 0..n}
Lists(S, n) == UNION {[1..k -> S] : k \in 0..n}

\* Python's None, for a name and for a reference
None == "None"
NoRef == [id |-> "", ref_type |-> "None"]

\* str.lower()
LowerChar(c) == IF c = "A" THEN "a" ELSE c
Lower(text) == [i \in 1..Len(text) |-> LowerChar(text[i])]

\* "kw in name_lower": kw occurs in name as a contiguous piece
IsSubstringPrefix(kw, name) ==
  Len(kw) <= Len(name) /\ SubSeq(name, 1, Len(kw)) = kw
IsSubstring(kw, name) ==
  \E i \in 0..(Len(name) - Len(kw)) : SubSeq(name, i + 1, i + Len(kw)) = kw

\* all(kw in name_lower for kw in keywords_lower): the keywords are tried
\* in their order and the first one that is missing ends the test
RECURSIVE AllIn(_, _, _)
AllIn(kws, i, name) ==
  IF i > Len(kws) THEN TRUE
  ELSE IF ~IsSubstring(kws[i], name) THEN FALSE
  ELSE AllIn(kws, i + 1, name)

\* keywords_lower = [k.lower() for k in keywords]
KeywordsLower(keywords) == [i \in 1..Len(keywords) |-> Lower(keywords[i])]

\* the descriptors client.get_descriptors(o.Flow) yields for a store whose
\* flows have the given names, in the order of the store
Descriptors(names) == [i \in 1..Len(names) |-> [id |-> i, name |-> names[i]]]

\* "matches.append(flow_ref)" and the print under
\* "if len(matches) <= max_results"
RecordCapped(acc, ref, max_results) ==
  IF Len(acc.matches) < max_results
  THEN [matches |-> Append(acc.matches, ref),
        shown |-> Append(acc.shown, ref.name)]
  ELSE acc
Record(acc, ref, max_results) ==
  LET m == Append(acc.matches, ref) IN
  [matches |-> m,
   shown |-> IF Len(m) <= max_results THEN Append(acc.shown, ref.name)
             ELSE acc.shown]

\* the loop "for flow_ref in client.get_descriptors(o.Flow)"
RECURSIVE ScanFlows(_, _, _, _, _)
ScanFlows(refs, i, kwl, max_results, acc) ==
  IF i > Len(refs) THEN acc
  ELSE ScanFlows(refs, i + 1, kwl, max_results,
                 IF AllIn(kwl, 1, Lower(refs[i].name))
                 THEN Record(acc, refs[i], max_results) ELSE acc)

\* find_flow_by_keywords(keywords, max_results): the list returned, the
\* names printed, and the number of the "... and N more matches" line
find_flow_by_keywords(keywords, max_results, names) ==
  LET r == ScanFlows(Descriptors(names), 1, KeywordsLower(keywords),
                     max_results, [matches |-> <<>>, shown |-> <<>>])
  IN [matches |-> r.matches, shown |-> r.shown,
      more |-> IF Len(r.matches) > max_results
               THEN Len(r.matches) - max_results ELSE 0]

\* the references the script resolves once, before any operation
MassRef == [id |-> "mass", name |-> "Mass", ref_type |-> "FlowProperty"]
UnitRef(name) == [id |-> name, name |-> name, ref_type |-> "Unit"]

\* next((u for u in unit_group.units if u.name == "kg"), unit_group.units[0])
RECURSIVE FirstNamed(_, _, _)
FirstNamed(units, i, name) ==
  IF i > Len(units) THEN units[1]
  ELSE IF units[i] = name THEN units[i]
  ELSE FirstNamed(units, i + 1, name)

ScriptStart ==
  [pc |-> "start", op |-> "", in |-> <<>>, out |-> <<>>, puts |-> <<>>,
   err |-> "", mass_prop |-> FALSE, kg_unit |-> ""]

\* an operation of the script has run to its return
Ran(op, in, out, puts) ==
  [script EXCEPT !.pc = "ran", !.op = op, !.in = in, !.out = out,
                 !.puts = puts]

\* an exception has left an operation: the script ends
Aborted(op, in, puts, err) ==
  [script EXCEPT !.pc = "aborted", !.op = op, !.in = in, !.puts = puts,
                 !.err = err]

(* ---------------------------- environment ------------------------------ *)
\* a variable that is not set, and the values the variables are given
Unset == "unset"
Environs == [host : {Unset, "lca.example"}, port : {Unset, "9090", "abc"}]
DefaultEnviron == [host |-> Unset, port |-> Unset]

\* os.getenv(name, default)
Getenv(value, default) == IF value = Unset THEN default ELSE value

\* int(text): the number, or -1 where int() raises ValueError
ParseInt(text) ==
  CASE text = "8080" -> 8080
    [] text = "9090" -> 9090
    [] OTHER -> -1

\* port = int(os.getenv("OPENLCA_PORT", "8080"))
EnvPort(env) == ParseInt(Getenv(env.port, "8080"))

NoEndpoint == [host |-> "", port |-> 0]

\* OLCAClient(port=port): the port of the environment, and the host the
\* client defaults to, as no host is passed
ClientEndpoint(env) == [host |-> "localhost", port |-> EnvPort(env)]

(* ------------------------------- Init ---------------------------------- *)
InitServer ==
  /\ phase = "starting"
  /\ startupFailed = FALSE
  /\ _client = 0
  /\ clientsCreated = 0
  /\ connectAttempts = 0
  /\ _active_results = [k \in {} |-> 0]
  /\ obtained = 0
  /\ releases = [h \in Handles |-> 0]
  /\ tried = {}
  /\ announced = {}
  /\ inv = [t \in Tasks |-> Idle]
  /\ running = 0
  /\ endpoint = NoEndpoint
  /\ script = ScriptStart
  /\ mc = McIdle
  /\ lib = LibIdle
  /\ expired = {}

Init == InitServer /\ environ = DefaultEnviron

\* the server started under any values of the two variables
InitEnv == InitServer /\ environ \in Environs

(* ----------------------------- get_client ------------------------------ *)
\* variant: the client is created on every call
GetClientCreatesAlways(c) == TRUE

\* "if _client is None"
GetClientCreates(c) == c = 0

\* variant: a failed startup connection ends main()
MainAfterStartupFatal(outcome) ==
  IF outcome = "fail" THEN "stopped" ELSE "serving"

\* main(): what follows the try/except around the startup connection test,
\* for each outcome of it: the server is run
MainAfterStartup(outcome) == "serving"

\* main(): get_client() and client.test_connection() inside try/except
\* Exception, then the server is run.  Outcomes: the client is created and
\* the test answers true ("ok") or false ("unverified") or raises
\* ("test_fail"), or get_client() raises ("fail": int() of the port, or the
\* creation of the client)
Main ==
  /\ phase = "starting"
  /\ \E outcome \in {"ok", "unverified", "test_fail", "fail"} :
       /\ EnvPort(environ) = -1 => outcome = "fail"
       /\ phase' = MainAfterStartup(outcome)
       /\ startupFailed' = (outcome = "fail")
       /\ connectAttempts' =
            IF EnvPort(environ) = -1 THEN connectAttempts
            ELSE connectAttempts + 1
       /\ IF outcome = "fail"
          THEN UNCHANGED <<_client, clientsCreated, endpoint>>
          ELSE /\ _client' = clientsCreated + 1
               /\ clientsCreated' = clientsCreated + 1
               /\ endpoint' = ClientEndpoint(environ)
  /\ UNCHANGED <<_active_results, obtained, releases, tried, announced,
                 inv, running, environ, script, mc, lib, expired>>

(* ------------------------------ call_tool ------------------------------ *)
\* a tool call arrives at the server
Submit(t) ==
  /\ phase = "serving"
  /\ inv[t].pc = "idle"
  /\ inv' = [inv EXCEPT ![t].pc = "submitted"]
  /\ UNCHANGED <<environ, endpoint, script, mc, lib, expired, phase, startupFailed, _client, clientsCreated,
                 connectAttempts, _active_results, obtained, releases, tried,
                 announced, running>>

\* first statement group of the handler of a tool
EntryPc(name) ==
  IF name = "dispose_result" THEN "dispose_check" ELSE "get_client"

\* call_tool(name, arguments): TOOL_HANDLERS.get(name), "Unknown tool" when
\* there is none, else the handler is entered
CallToolIn(t, names) ==
  /\ phase = "serving"
  /\ running = 0
  /\ inv[t].pc = "submitted"
  /\ \E name \in names : \E a \in ArgsFor(name) :
       LET rec == [Idle EXCEPT !.tool = name, !.args = a] IN
       IF name \notin TOOL_HANDLERS
       THEN Update(t, Done(rec, UnknownToolResponse(name)))
       ELSE Update(t, [rec EXCEPT !.pc = EntryPc(name)])
  /\ UNCHANGED <<environ, endpoint, script, mc, lib, expired, phase, startupFailed, _client, clientsCreated,
                 connectAttempts, _active_results, obtained, releases, tried,
                 announced>>

CallTool(t) == CallToolIn(t, ToolNames)

\* the response goes back to the caller, who learns the result_id in it
Return(t) ==
  /\ running = t
  /\ inv[t].pc = "done"
  /\ announced' = IF inv[t].resp.success /\ inv[t].resp.result_id # ""
                  THEN announced \cup {inv[t].h} ELSE announced
  /\ Update(t, Idle)
  /\ UNCHANGED <<environ, endpoint, script, mc, lib, expired, phase, startupFailed, _client, clientsCreated,
                 connectAttempts, _active_results, obtained, releases, tried>>

\* client = get_client(), the first statement of every handler that uses
\* the client
GetClient(t) ==
  /\ CanStep(t)
  /\ inv[t].pc = "get_client"
  /\ IF GetClientCreates(_client)
     THEN IF EnvPort(environ) = -1
          THEN /\ UNCHANGED <<_client, clientsCreated, connectAttempts,
                              endpoint>>
               /\ Update(t, Raised(inv[t], "ValueError"))
          ELSE /\ connectAttempts < MaxConnectAttempts
               /\ connectAttempts' = connectAttempts + 1
               /\ \E outcome \in {"ok", "fail"} :
                    IF outcome = "ok"
                    THEN /\ _client' = clientsCreated + 1
                         /\ clientsCreated' = clientsCreated + 1
                         /\ endpoint' = ClientEndpoint(environ)
                         /\ Update(t, [inv[t] EXCEPT
                                         !.pc = "body",
                                         !.client = clientsCreated + 1])
                    ELSE /\ UNCHANGED <<_client, clientsCreated, endpoint>>
                         /\ Update(t, Raised(inv[t], "ConnectError"))
     ELSE /\ UNCHANGED <<_client, clientsCreated, connectAttempts, endpoint>>
          /\ Update(t, [inv[t] EXCEPT !.pc = "body", !.client = _client])
  /\ UNCHANGED <<environ, script, mc, lib, expired, phase, startupFailed, _active_results,
                 obtained, releases, tried, announced>>

(* --------------------------- dispose_result ---------------------------- *)
\* result_id = arguments["result_id"]; if result_id in _active_results:
\* result = _active_results[result_id]; else the "not found" response
DisposeCheck(t) ==
  /\ CanStep(t)
  /\ inv[t].pc = "dispose_check"
  /\ LET a == inv[t].args IN
     IF ~a.isDict THEN Update(t, Raised(inv[t], "TypeError"))
     ELSE IF a.result_id = "missing" THEN Update(t, Raised(inv[t], "KeyError"))
     ELSE IF DisposeLookup(_active_results, a.result_id)
     THEN IF a.result_id \in DOMAIN _active_results
          THEN Update(t, [inv[t] EXCEPT !.pc = "dispose_release",
                                        !.rid = a.result_id,
                                        !.h = _active_results[a.result_id]])
          ELSE Update(t, Raised(inv[t], "KeyError"))
     ELSE Update(t, Done([inv[t] EXCEPT !.rid = a.result_id],
                         ResultNotFoundResponse(a.result_id)))
  /\ UNCHANGED <<environ, endpoint, script, mc, lib, expired, phase, startupFailed, _client, clientsCreated,
                 connectAttempts, _active_results, obtained, releases, tried,
                 announced>>

\* variant: the entry is deleted although the release raised
DisposeReleaseDropsOnFailure(t) ==
  /\ CanStep(t)
  /\ inv[t].pc = "dispose_release"
  /\ tried' = tried \cup {inv[t].h}
  /\ \E outcome \in {"ok", "fail"} :
       LET rec == inv[t] IN
       IF outcome = "fail"
       THEN /\ Update(t, RemoteFailure(rec, <<"dispose", 0>>))
            /\ _active_results' = DeleteResult(_active_results, rec.rid)
            /\ UNCHANGED <<releases, expired>>
       ELSE /\ releases' = [releases EXCEPT ![rec.h] = @ + 1]
            /\ IF rec.rid \in DOMAIN _active_results
               THEN /\ _active_results' = DeleteResult(_active_results, rec.rid)
                    /\ expired' = expired \cup {rec.rid}
                    /\ Update(t, Done(Called(rec, <<"dispose", 0>>, "ok"),
                                      SuccessResponse({"message"}, "")))
               ELSE /\ UNCHANGED <<_active_results, expired>>
                    /\ Update(t, Raised(Called(rec, <<"dispose", 0>>, "ok"),
                                        "KeyError"))
  /\ UNCHANGED <<environ, endpoint, script, mc, lib, phase, startupFailed, _client, clientsCreated,
                 connectAttempts, obtained, announced>>

\* result.dispose(); del _active_results[result_id]; the success response
DisposeRelease(t) ==
  /\ CanStep(t)
  /\ inv[t].pc = "dispose_release"
  /\ tried' = tried \cup {inv[t].h}
  /\ \E outcome \in {"ok", "fail"} :
       LET rec == inv[t] IN
       IF outcome = "fail"
       THEN /\ Update(t, RemoteFailure(rec, <<"dispose", 0>>))
            /\ UNCHANGED <<_active_results, releases, expired>>
       ELSE /\ releases' = [releases EXCEPT ![rec.h] = @ + 1]
            /\ IF rec.rid \in DOMAIN _active_results
               THEN /\ _active_results' = DeleteResult(_active_results, rec.rid)
                    /\ expired' = expired \cup {rec.rid}
                    /\ Update(t, Done(Called(rec, <<"dispose", 0>>, "ok"),
                                      SuccessResponse({"message"}, "")))
               ELSE /\ UNCHANGED <<_active_results, expired>>
                    /\ Update(t, Raised(Called(rec, <<"dispose", 0>>, "ok"),
                                        "KeyError"))
  /\ UNCHANGED <<environ, endpoint, script, mc, lib, phase, startupFailed, _client, clientsCreated,
                 connectAttempts, obtained, announced>>

(* ------------------------------ searches ------------------------------- *)
Frame == UNCHANGED <<environ, endpoint, script, mc, lib, expired, phase, startupFailed, _client, clientsCreated,
                     connectAttempts, _active_results, obtained, releases, tried,
                     announced>>

\* handle_search_flows and handle_search_processes: arguments["keywords"],
\* getattr(o.FlowType, flow_type_str), one find_flows / find_processes call
SearchList(t) ==
  /\ CanStep(t)
  /\ inv[t].pc = "body"
  /\ inv[t].tool \in {"search_flows", "search_processes"}
  /\ LET rec == inv[t]
         a == rec.args
         site == IF rec.tool = "search_flows" THEN "find_flows"
                 ELSE "find_processes"
         payload == IF rec.tool = "search_flows" THEN {"count", "flows"}
                    ELSE {"count", "processes"}
     IN
     IF ~a.isDict THEN Update(t, Raised(rec, "TypeError"))
     ELSE IF ~a.keywords THEN Update(t, Raised(rec, "KeyError"))
     ELSE IF a.flow_type = "invalid" THEN Update(t, Raised(rec, "AttributeError"))
     ELSE \E outcome \in {"ok", "fail"} :
            IF outcome = "fail"
            THEN Update(t, RemoteFailure(rec, <<site, 0>>))
            ELSE Update(t, Done(Called(rec, <<site, 0>>, "ok"),
                                SuccessResponse(payload, "")))
  /\ Frame

\* handle_search_impact_methods: one find_impact_method call, the method or
\* the "not found" response
SearchMethod(t) ==
  /\ CanStep(t)
  /\ inv[t].pc = "body"
  /\ inv[t].tool = "search_impact_methods"
  /\ LET rec == inv[t]
         a == rec.args
         site == <<"find_impact_method", 0>>
     IN
     IF ~a.isDict THEN Update(t, Raised(rec, "TypeError"))
     ELSE IF ~a.keywords THEN Update(t, Raised(rec, "KeyError"))
     ELSE \E outcome \in {"found", "empty", "fail"} :
            CASE outcome = "fail" -> Update(t, RemoteFailure(rec, site))
              [] outcome = "empty" ->
                   Update(t, Done(Called(rec, site, "empty"),
                                  MethodNotFoundResponse))
              [] OTHER ->
                   Update(t, Done(Called(rec, site, "found"),
                                  SuccessResponse({"method"}, "")))
  /\ Frame

\* the "get flow reference" / "get process reference" block of
\* handle_find_providers and handle_create_product_system: a Ref from the id,
\* else a search by name, else the "must be provided" response
ResolveRefIgnoreEmpty(t, site, what, nextpc) ==
  LET rec == inv[t]
      a == rec.args
  IN
  IF ~a.isDict THEN Update(t, Raised(rec, "TypeError"))
  ELSE CASE a.ident = "id" -> Update(t, [rec EXCEPT !.pc = nextpc])
         [] a.ident = "name" ->
              \E outcome \in {"found", "empty", "fail"} :
                CASE outcome = "fail" -> Update(t, RemoteFailure(rec, site))
                  [] OTHER ->
                       Update(t, [Called(rec, site, outcome)
                                    EXCEPT !.pc = nextpc])
         [] OTHER ->
              Update(t, Done(rec, ErrorResponse("Either " \o what
                                     \o " id or name must be provided")))
ResolveRef(t, site, what, nextpc) ==
  LET rec == inv[t]
      a == rec.args
  IN
  IF ~a.isDict THEN Update(t, Raised(rec, "TypeError"))
  ELSE CASE a.ident = "id" -> Update(t, [rec EXCEPT !.pc = nextpc])
         [] a.ident = "name" ->
              \E outcome \in {"found", "empty", "fail"} :
                CASE outcome = "fail" -> Update(t, RemoteFailure(rec, site))
                  [] outcome = "empty" ->
                       Update(t, Done(Called(rec, site, "empty"),
                                      ErrorResponse(what \o " not found")))
                  [] OTHER ->
                       Update(t, [Called(rec, site, "found")
                                    EXCEPT !.pc = nextpc])
         [] OTHER ->
              Update(t, Done(rec, ErrorResponse("Either " \o what
                                     \o " id or name must be provided")))

\* the single library call that ends a handler, and its success response
FinalCall(t, site, payload) ==
  \E outcome \in {"ok", "fail"} :
    IF outcome = "fail"
    THEN Update(t, RemoteFailure(inv[t], site))
    ELSE Update(t, Done(Called(inv[t], site, "ok"),
                        SuccessResponse(payload, "")))

FindProvidersResolve(t) ==
  /\ CanStep(t)
  /\ inv[t].pc = "body"
  /\ inv[t].tool = "find_providers"
  /\ ResolveRef(t, <<"find_flows", 0>>, "Flow", "fp_lookup")
  /\ Frame

\* providers = client.search.find_providers(flow_ref)
FindProvidersLookup(t) ==
  /\ CanStep(t)
  /\ inv[t].pc = "fp_lookup"
  /\ FinalCall(t, <<"find_providers", 0>>, {"count", "providers"})
  /\ Frame

(* ------------------------------ creation ------------------------------- *)
\* handle_create_product_flow: arguments["name"], one create_product_flow
CreateProductFlow(t) ==
  /\ CanStep(t)
  /\ inv[t].pc = "body"
  /\ inv[t].tool = "create_product_flow"
  /\ IF ~inv[t].args.isDict THEN Update(t, Raised(inv[t], "TypeError"))
     ELSE IF ~inv[t].args.name THEN Update(t, Raised(inv[t], "KeyError"))
     ELSE FinalCall(t, <<"create_product_flow", 0>>, {"flow"})
  /\ Frame

\* handle_create_process: arguments["name"], arguments["exchanges"]
CreateProcessArgs(t) ==
  /\ CanStep(t)
  /\ inv[t].pc = "body"
  /\ inv[t].tool = "create_process"
  /\ LET rec == inv[t]
         a == rec.args
     IN
     IF ~a.isDict THEN Update(t, Raised(rec, "TypeError"))
     ELSE IF ~a.name \/ ~a.hasExchanges THEN Update(t, Raised(rec, "KeyError"))
     ELSE Update(t, [rec EXCEPT !.i = 1,
                       !.pc = IF Len(a.exchanges) = 0 THEN "cp_put"
                              ELSE "cp_exchange"])
  /\ Frame

\* one turn of "for ex_data in exchanges_data": one find_flows call for the
\* item's flow_id, the Ref fallback when nothing is found, create_exchange
CreateProcessExchange(t) ==
  /\ CanStep(t)
  /\ inv[t].pc = "cp_exchange"
  /\ LET rec == inv[t]
         site == <<"find_flows", rec.i>>
     IN
     \E outcome \in {"found", "empty", "fail"} :
       IF outcome = "fail"
       THEN Update(t, RemoteFailure(rec, site))
       ELSE Update(t, [Called(rec, site, outcome) EXCEPT
                         !.i = rec.i + 1,
                         !.pc = IF rec.i = Len(rec.args.exchanges)
                                THEN "cp_put" ELSE "cp_exchange"])
  /\ Frame

\* process = client.data.create_process(name, description, exchanges)
CreateProcessPut(t) ==
  /\ CanStep(t)
  /\ inv[t].pc = "cp_put"
  /\ FinalCall(t, <<"create_process", 0>>, {"process"})
  /\ Frame

CreateSystemResolve(t) ==
  /\ CanStep(t)
  /\ inv[t].pc = "body"
  /\ inv[t].tool = "create_product_system"
  /\ ResolveRef(t, <<"find_processes", 0>>, "Process", "cs_create")
  /\ Frame

\* system = client.systems.create_product_system(process_ref)
CreateSystemCreate(t) ==
  /\ CanStep(t)
  /\ inv[t].pc = "cs_create"
  /\ FinalCall(t, <<"create_product_system", 0>>, {"product_system"})
  /\ Frame

(* -------------------------- calculate_impacts -------------------------- *)
\* variant: the "if not method" test is missing
CalcResolveIgnoreEmpty(t) ==
  /\ CanStep(t)
  /\ inv[t].pc = "body"
  /\ inv[t].tool = "calculate_impacts"
  /\ LET rec == inv[t]
         a == rec.args
         site == IF a.method = "id" THEN <<"get_method", 0>>
                 ELSE <<"find_impact_method", 0>>
     IN
     IF ~a.isDict THEN Update(t, Raised(rec, "TypeError"))
     ELSE IF a.ident = "none"
     THEN Update(t, Done(rec, ErrorResponse(
                     "Either system_id or system_name must be provided")))
     ELSE IF a.method = "none"
     THEN Update(t, Done(rec, ErrorResponse(
                     "Either method_id or method_keywords must be provided")))
     ELSE \E outcome \in {"found", "empty", "fail"} :
            CASE outcome = "fail" -> Update(t, RemoteFailure(rec, site))
              [] OTHER ->
                   Update(t, [Called(rec, site, outcome) EXCEPT
                                !.pc = "calc_run"])
  /\ Frame

\* the "get system" and "get method" blocks of handle_calculate_impacts
CalcResolve(t) ==
  /\ CanStep(t)
  /\ inv[t].pc = "body"
  /\ inv[t].tool = "calculate_impacts"
  /\ LET rec == inv[t]
         a == rec.args
         site == IF a.method = "id" THEN <<"get_method", 0>>
                 ELSE <<"find_impact_method", 0>>
     IN
     IF ~a.isDict THEN Update(t, Raised(rec, "TypeError"))
     ELSE IF a.ident = "none"
     THEN Update(t, Done(rec, ErrorResponse(
                     "Either system_id or system_name must be provided")))
     ELSE IF a.method = "none"
     THEN Update(t, Done(rec, ErrorResponse(
                     "Either method_id or method_keywords must be provided")))
     ELSE \E outcome \in {"found", "empty", "fail"} :
            CASE outcome = "fail" -> Update(t, RemoteFailure(rec, site))
              [] outcome = "empty" ->
                   Update(t, Done(Called(rec, site, "empty"),
                                  ErrorResponse("Impact method not found")))
              [] OTHER ->
                   Update(t, [Called(rec, site, "found") EXCEPT
                                !.pc = "calc_run"])
  /\ Frame

\* result = client.calculate.simple_calculation(...);
\* result_id = str(id(result)); _active_results[result_id] = result
CalcRun(t) ==
  /\ CanStep(t)
  /\ inv[t].pc = "calc_run"
  /\ LET rec == inv[t]
         site == <<"simple_calculation", 0>>
     IN
     \/ /\ Update(t, RemoteFailure(rec, site))
        /\ UNCHANGED <<_active_results, obtained>>
     \/ /\ obtained < MaxResults
        /\ \E a \in FreeAddr(_active_results) :
             /\ obtained' = obtained + 1
             /\ _active_results' =
                  StoreResult(_active_results, ResultId(a), obtained + 1)
             /\ Update(t, [Called(rec, site, "ok") EXCEPT
                             !.pc = "calc_impacts", !.rid = ResultId(a),
                             !.h = obtained + 1])
  /\ UNCHANGED <<environ, endpoint, script, mc, lib, expired, phase, startupFailed, _client, clientsCreated,
                 connectAttempts, releases, tried, announced>>

\* the response of a successful calculate_impacts
CalcSuccessResponse(rid) ==
  SuccessResponse({"result_id", "impacts", "message"}, rid)

\* impacts = client.results.get_total_impacts(result); json.dumps of the
\* success response with result_id and impacts
CalcImpacts(t) ==
  /\ CanStep(t)
  /\ inv[t].pc = "calc_impacts"
  /\ LET rec == inv[t]
         site == <<"get_total_impacts", 0>>
     IN
     \E outcome \in {"ok", "fail", "unserializable"} :
       CASE outcome = "fail" -> Update(t, RemoteFailure(rec, site))
         [] outcome = "unserializable" ->
              Update(t, Raised(Called(rec, site, "ok"), "SerializationError"))
         [] OTHER ->
              Update(t, Done(Called(rec, site, "ok"),
                             CalcSuccessResponse(rec.rid)))
  /\ Frame

(* --------------------------- test_connection --------------------------- *)
\* handle_test_connection: client.test_connection() and the response with
\* "connected" and "port"
TestConnection(t) ==
  /\ CanStep(t)
  /\ inv[t].pc = "body"
  /\ inv[t].tool = "test_connection"
  /\ \E outcome \in {"true", "false", "fail"} :
       IF outcome = "fail"
       THEN Update(t, RemoteFailure(inv[t], <<"test_connection", 0>>))
       ELSE Update(t, Done(Called(inv[t], <<"test_connection", 0>>, outcome),
                           SuccessResponse({"connected", "port"}, "")))
  /\ Frame

Next ==
  \/ Main
  \/ \E t \in Tasks : Submit(t)
  \/ \E t \in Tasks : CallTool(t)
  \/ \E t \in Tasks : Return(t)
  \/ \E t \in Tasks : GetClient(t)
  \/ \E t \in Tasks : DisposeCheck(t)
  \/ \E t \in Tasks : DisposeRelease(t)
  \/ \E t \in Tasks : SearchList(t)
  \/ \E t \in Tasks : SearchMethod(t)
  \/ \E t \in Tasks : FindProvidersResolve(t)
  \/ \E t \in Tasks : FindProvidersLookup(t)
  \/ \E t \in Tasks : CreateProductFlow(t)
  \/ \E t \in Tasks : CreateProcessArgs(t)
  \/ \E t \in Tasks : CreateProcessExchange(t)
  \/ \E t \in Tasks : CreateProcessPut(t)
  \/ \E t \in Tasks : CreateSystemResolve(t)
  \/ \E t \in Tasks : CreateSystemCreate(t)
  \/ \E t \in Tasks : CalcResolve(t)
  \/ \E t \in Tasks : CalcRun(t)
  \/ \E t \in Tasks : CalcImpacts(t)
  \/ \E t \in Tasks : TestConnection(t)

Spec == Init /\ [][Next]_vars

\* the tools called in the runs that vary the environment
EnvTools == {"test_connection", "list_databases"}

NextEnv ==
  \/ Main
  \/ \E t \in Tasks : Submit(t)
  \/ \E t \in Tasks : CallToolIn(t, EnvTools)
  \/ \E t \in Tasks : Return(t)
  \/ \E t \in Tasks : GetClient(t)
  \/ \E t \in Tasks : TestConnection(t)

\* the server under any environment, answering connection tests
SpecEnv == InitEnv /\ [][NextEnv]_vars

\* the variables of the server
ServerVars ==
  <<phase, startupFailed, _client, clientsCreated, connectAttempts,
    _active_results, obtained, releases, tried, announced, inv, running,
    environ, endpoint, expired>>

(* ------------------- run_monte_carlo (uncertainty analyzer) ------------ *)
\* the amounts one stochastic draw may give the category
Draws == {1, 2}

\* variant: a failed remote call ends the sampling and the statistics of the
\* completed iterations are returned
McFailurePartial(rec, call) ==
  [rec EXCEPT !.pc = "statistics", !.failedCall = call]

\* a remote call of the current iteration fails: the whole operation fails
McFailure(rec, call) ==
  [rec EXCEPT !.pc = "failed", !.failedCall = call, !.out = "error"]

\* variant: the results are kept until the end of the run
HeldAfterReleaseKeep(held, i) == held

\* the result handles still held once iteration i has released its result
HeldAfterRelease(held, i) == held \ {i}

\* the end of iteration i: the next draw, or the statistics after the last
McAdvance(rec) ==
  IF rec.i = rec.iterations THEN [rec EXCEPT !.pc = "statistics"]
  ELSE [rec EXCEPT !.pc = "calculate", !.i = rec.i + 1]

McFrame == UNCHANGED <<ServerVars, script, lib>>

\* run_monte_carlo(system_ref, method_ref, iterations, progress_callback)
McStart ==
  /\ mc.pc = "idle"
  /\ \E n \in 1..MaxIterations, cb \in BOOLEAN :
       mc' = [McIdle EXCEPT !.pc = "calculate", !.iterations = n, !.i = 1,
                            !.callback = cb]
  /\ McFrame

\* request one stochastic calculation draw from the server
McCalculate ==
  /\ mc.pc = "calculate"
  /\ \/ mc' = [mc EXCEPT !.pc = "extract", !.obtained = @ + 1,
                         !.held = @ \cup {mc.i}]
     \/ mc' = McFailure(mc, "calculate")
  /\ McFrame

\* extract the total impacts and append the category's amount
McExtract ==
  /\ mc.pc = "extract"
  /\ \/ \E amount \in Draws :
          mc' = [mc EXCEPT !.pc = "release", !.samples = Append(@, amount)]
     \/ mc' = McFailure(mc, "extract")
  /\ McFrame

\* release the iteration's result
McRelease ==
  /\ mc.pc = "release"
  /\ \/ LET rec == [mc EXCEPT !.held = HeldAfterRelease(@, mc.i),
                               !.released = @ + 1]
        IN mc' = IF mc.callback THEN [rec EXCEPT !.pc = "callback"]
                 ELSE McAdvance(rec)
     \/ mc' = McFailure(mc, "release")
  /\ McFrame

\* progress_callback(i, iterations)
McCallback ==
  /\ mc.pc = "callback"
  /\ mc' = McAdvance([mc EXCEPT !.progress = Append(@, mc.i)])
  /\ McFrame

\* after all iterations: the statistics mapping
McStatistics ==
  /\ mc.pc = "statistics"
  /\ mc' = [mc EXCEPT !.pc = "done", !.out = "stats"]
  /\ McFrame

\* the operation returns or raises to its caller
McReturn ==
  /\ mc.pc \in {"done", "failed"}
  /\ mc' = McIdle
  /\ McFrame

NextMC ==
  \/ McStart
  \/ McCalculate
  \/ McExtract
  \/ McRelease
  \/ McCallback
  \/ McStatistics
  \/ McReturn

SpecMC == Init /\ [][NextMC]_vars

(* ---------------- get_top_contributors (contribution analyzer) --------- *)
\* the amounts the server reports for the items of a category; an item may
\* be a credit
ContributionAmounts == {-1, 0, 1, 2}

\* min_share is a number of ShareDen-ths
ShareDen == 2
MinShares == 0..ShareDen

RECURSIVE SumAmounts(_, _)
SumAmounts(amounts, k) ==
  IF k = 0 THEN 0 ELSE SumAmounts(amounts, k - 1) + amounts[k]

\* amount / sum of all amounts as a fraction with a positive denominator,
\* and 0 when the sum is 0
Share(amount, total) ==
  IF total = 0 THEN [num |-> 0, den |-> 1]
  ELSE IF total > 0 THEN [num |-> amount, den |-> total]
  ELSE [num |-> -amount, den |-> -total]

ShareLess(a, b) == a.num * b.den < b.num * a.den

\* the contributors, in the order of the server, each with its share
Contributors(amounts) ==
  LET total == SumAmounts(amounts, Len(amounts)) IN
  [k \in 1..Len(amounts) |->
     [item |-> k, amount |-> amounts[k], share |-> Share(amounts[k], total)]]

\* variant: an item is kept only when its share exceeds min_share
KeepsStrict(c, min_share) ==
  ShareLess([num |-> min_share, den |-> ShareDen], c.share)

\* the filter: an item with share < min_share is dropped
Keeps(c, min_share) ==
  ~ShareLess(c.share, [num |-> min_share, den |-> ShareDen])

RECURSIVE FilterShare(_, _, _)
FilterShare(cs, k, min_share) ==
  IF k > Len(cs) THEN <<>>
  ELSE IF Keeps(cs[k], min_share)
  THEN <<cs[k]>> \o FilterShare(cs, k + 1, min_share)
  ELSE FilterShare(cs, k + 1, min_share)

\* variant: an item goes before the items of equal share
InsertsBeforeEqual(x, y) == ~ShareLess(x.share, y.share)

\* the stable descending order: x goes before y only when its share is
\* greater
InsertsBefore(x, y) == ShareLess(y.share, x.share)

\* x is put into a list already in descending order, behind every item it
\* does not go before
RECURSIVE InsertByShare(_, _)
InsertByShare(sorted, x) ==
  IF sorted = <<>> THEN <<x>>
  ELSE IF InsertsBefore(x, Head(sorted)) THEN <<x>> \o sorted
  ELSE <<Head(sorted)>> \o InsertByShare(Tail(sorted), x)

RECURSIVE SortByShare(_, _)
SortByShare(cs, k) ==
  IF k = 0 THEN <<>> ELSE InsertByShare(SortByShare(cs, k - 1), cs[k])

\* get_top_contributors(result, category, n, min_share)
get_top_contributors(amounts, n, min_share) ==
  LET kept == FilterShare(Contributors(amounts), 1, min_share)
      sorted == SortByShare(kept, Len(kept))
  IN SubSeq(sorted, 1, IF n < Len(sorted) THEN n ELSE Len(sorted))

LibFrame == UNCHANGED <<ServerVars, script, mc>>

\* a call of get_top_contributors on the result of a contribution analysis
LibTopContributors ==
  /\ lib.pc = "idle"
  /\ \E amounts \in Lists(ContributionAmounts, MaxItems), n \in 0..MaxItems,
        min_share \in MinShares :
       lib' = [LibIdle EXCEPT
                 !.pc = "returned", !.op = "get_top_contributors",
                 !.in = [amounts |-> amounts, n |-> n,
                         min_share |-> min_share],
                 !.out = get_top_contributors(amounts, n, min_share)]
  /\ LibFrame

(* ---------------- run_scenario_analysis (scenario manager) ------------- *)
\* the values a parameter is given
ScenarioValues == {100, 500}

\* one remote or local step of the analysis is recorded
Stepped(rec, step) == [rec EXCEPT !.calls = Append(@, <<step, rec.i>>)]

\* a step of the analysis fails: the error goes to the caller
ScenarioFailure(rec, step, err) ==
  [Stepped(rec, step) EXCEPT !.pc = "failed", !.err = err, !.out = <<>>]

\* mapping[key] = value: a new key goes last, a known key keeps its place
RECURSIVE MapPut(_, _, _)
MapPut(entries, key, value) ==
  IF entries = <<>> THEN << <<key, value>> >>
  ELSE IF Head(entries)[1] = key THEN << <<key, value>> >> \o Tail(entries)
  ELSE <<Head(entries)>> \o MapPut(Tail(entries), key, value)

\* variant: the analysis returns after its first value
ScenarioAdvanceStop(rec) == [rec EXCEPT !.pc = "returned"]

\* the end of one value: the next value, or the return of the mapping
ScenarioAdvance(rec) ==
  IF rec.i = Len(rec.in.values) THEN [rec EXCEPT !.pc = "returned"]
  ELSE [rec EXCEPT !.pc = "sc_override", !.i = rec.i + 1]

\* run_scenario_analysis(system_ref, method_ref, parameter_name, values);
\* the system has the named parameter or not
LibScenarioStart ==
  /\ lib.pc = "idle"
  /\ \E values \in Lists(ScenarioValues, MaxValues), found \in BOOLEAN :
       lib' = [LibIdle EXCEPT
                 !.pc = IF values = <<>> THEN "returned" ELSE "sc_override",
                 !.op = "run_scenario_analysis",
                 !.in = [values |-> values, found |-> found],
                 !.i = IF values = <<>> THEN 0 ELSE 1]
  /\ LibFrame

\* override the named parameter with the current value
LibScenarioOverride ==
  /\ lib.pc = "sc_override"
  /\ lib' = IF lib.in.found
            THEN [Stepped(lib, "override") EXCEPT !.pc = "sc_calculate"]
            ELSE ScenarioFailure(lib, "override", "parameter not found")
  /\ LibFrame

\* run a simple calculation
LibScenarioCalculate ==
  /\ lib.pc = "sc_calculate"
  /\ \/ lib' = [Stepped(lib, "calculate") EXCEPT
                  !.pc = "sc_totals", !.held = @ \cup {lib.i}]
     \/ lib' = ScenarioFailure(lib, "calculate", "remote error")
  /\ LibFrame

\* record the total impacts under the value
LibScenarioTotals ==
  /\ lib.pc = "sc_totals"
  /\ \/ lib' = [Stepped(lib, "totals") EXCEPT
                  !.pc = "sc_release",
                  !.out = MapPut(@, lib.in.values[lib.i], lib.i)]
     \/ lib' = ScenarioFailure(lib, "totals", "remote error")
  /\ LibFrame

\* release the result
LibScenarioRelease ==
  /\ lib.pc = "sc_release"
  /\ \/ lib' = ScenarioAdvance([Stepped(lib, "release") EXCEPT
                                  !.held = @ \ {lib.i}])
     \/ lib' = ScenarioFailure(lib, "release", "remote error")
  /\ LibFrame

(* ------------------ export_impacts_to_csv (export manager) ------------- *)
\* the serialization of an input succeeds or fails
Serializations == {"written", "fails"}

\* variant: a serialization failure is raised to the caller
export_impacts_to_csvRaises(serialization) ==
  [raises |-> serialization = "fails", value |-> TRUE]

\* export_impacts_to_csv(impacts, path): true when the file was written,
\* false, without raising, when the serialization fails
export_impacts_to_csv(serialization) ==
  [raises |-> FALSE, value |-> serialization = "written"]

\* a caller starts a loop of exports over several inputs
LibExportStart ==
  /\ lib.pc = "idle"
  /\ \E inputs \in Lists(Serializations, MaxExports) :
       lib' = [LibIdle EXCEPT
                 !.pc = IF inputs = <<>> THEN "returned" ELSE "export",
                 !.op = "export_impacts_to_csv",
                 !.in = [inputs |-> inputs],
                 !.i = IF inputs = <<>> THEN 0 ELSE 1]
  /\ LibFrame

\* one export of the loop
LibExport ==
  /\ lib.pc = "export"
  /\ LET r == export_impacts_to_csv(lib.in.inputs[lib.i])
         rec == Stepped(lib, "export")
     IN lib' = IF r.raises
               THEN [rec EXCEPT !.pc = "failed", !.err = "export error"]
               ELSE [rec EXCEPT
                       !.out = Append(@, r.value),
                       !.pc = IF lib.i = Len(lib.in.inputs) THEN "returned"
                              ELSE "export",
                       !.i = IF lib.i = Len(lib.in.inputs) THEN lib.i
                             ELSE lib.i + 1]
  /\ LibFrame

(* --------------- the exchange loop of handle_create_process ----------- *)
\* the ids of the flows of the store, and the flow_id values a caller sends
FlowIds == {<<"a">>, <<"b">>}
FlowIdArgs == {<<"a">>, <<"b">>, <<"A">>}

\* the flows of a store: their ids are pairwise different
FlowStores ==
  {st \in Lists([id : FlowIds, name : Strs(MaxNameLen)], MaxNames) :
     \A j, k \in 1..Len(st) : j # k => st[j].id # st[k].id}

\* client.search.find_flows(keywords, max_results): the first max_results
\* flows, in store order, whose lower-cased name holds every lower-cased
\* keyword
RECURSIVE find_flows(_, _, _)
find_flows(keywords, max_results, flows) ==
  IF flows = <<>> \/ max_results = 0 THEN <<>>
  ELSE IF AllIn(KeywordsLower(keywords), 1, Lower(Head(flows).name))
  THEN <<Head(flows)>> \o find_flows(keywords, max_results - 1, Tail(flows))
  ELSE find_flows(keywords, max_results, Tail(flows))

\* the items of arguments["exchanges"]: the flow_id, and whether the item
\* has a provider_id
ExchangeItems == [flow_id : FlowIdArgs, has_provider : BOOLEAN]

\* "flows = client.search.find_flows([flow_id], max_results=1)", then
\* o.Ref(id=flow_id) when nothing is found, else flows[0]
ItemFlowRef(ex_data, store) ==
  LET flows == find_flows(<<ex_data.flow_id>>, 1, store) IN
  IF flows = <<>> THEN [id |-> ex_data.flow_id, found |-> FALSE]
  ELSE [id |-> flows[1].id, found |-> TRUE]

\* the provider handed to create_exchange: o.Ref(id=provider_id) when the
\* item has the key, else None
ItemProvider(ex_data) == IF ex_data.has_provider THEN "Ref" ELSE None

\* "for ex_data in exchanges_data: ... exchanges.append(exchange)"
RECURSIVE BuildExchanges(_, _, _)
BuildExchanges(exchanges_data, k, store) ==
  IF k = 0 THEN <<>>
  ELSE Append(BuildExchanges(exchanges_data, k - 1, store),
              [flow |-> ItemFlowRef(exchanges_data[k], store),
               provider |-> ItemProvider(exchanges_data[k])])

\* the exchange loop runs over the items of one create_process call
LibBuildExchanges ==
  /\ lib.pc = "idle"
  /\ \E exchanges_data \in Lists(ExchangeItems, MaxExchanges),
        store \in FlowStores :
       lib' = [LibIdle EXCEPT
                 !.pc = "returned", !.op = "handle_create_process",
                 !.in = [exchanges |-> exchanges_data, store |-> store],
                 !.out = BuildExchanges(exchanges_data, Len(exchanges_data),
                                        store)]
  /\ LibFrame

\* the call returns or raises to its caller
LibReturn ==
  /\ lib.pc \in {"returned", "failed"}
  /\ lib' = LibIdle
  /\ LibFrame

NextLib ==
  \/ LibTopContributors
  \/ LibScenarioStart
  \/ LibScenarioOverride
  \/ LibScenarioCalculate
  \/ LibScenarioTotals
  \/ LibScenarioRelease
  \/ LibExportStart
  \/ LibExport
  \/ LibReturn

SpecLib == Init /\ [][NextLib]_vars

NextExchanges ==
  \/ LibBuildExchanges
  \/ LibReturn

SpecExchanges == Init /\ [][NextExchanges]_vars

(* --------------------- the script's other operations ------------------- *)
\* hasattr(first, ...) is false
Absent == "absent"

ProcessIds == {"p1", "p2"}
\* an element of the provider list: its provider and process attributes,
\* where it has them, and the element itself
ProviderElems ==
  [provider : ProcessIds \cup {Absent}, process : ProcessIds \cup {Absent},
   self : {"e1"}]

\* find_best_provider(flow_ref); fetch is "fail" when getting the providers
\* raises
find_best_providerProcessFirst(providers, fetch) ==
  IF fetch = "fail" THEN None
  ELSE IF providers # <<>>
  THEN LET first == providers[1] IN
       IF first.process # Absent THEN first.process
       ELSE IF first.provider # Absent THEN first.provider
       ELSE first.self
  ELSE None
find_best_provider(providers, fetch) ==
  IF fetch = "fail" THEN None
  ELSE IF providers # <<>>
  THEN LET first == providers[1] IN
       IF first.provider # Absent THEN first.provider
       ELSE IF first.process # Absent THEN first.process
       ELSE first.self
  ELSE None

\* the values make_exchange is called with
FlowArgs == [kind : {"Ref", "Flow", "WithId", "Other"}, id : {"f1"}]
Amounts == {-1, 0, 2}
ProviderArgs == [kind : {"None", "Ref", "WithId"}, id : {"p1"}]

\* make_exchange(flow_ref, amount, is_input, is_qref, provider_ref), with
\* the script's kg_unit
make_exchange(flow_ref, amount, is_input, is_qref, provider_ref, kg_unit) ==
  [flow |-> IF flow_ref.kind = "Other" THEN NoRef
            ELSE [id |-> flow_ref.id, ref_type |-> "Flow"],
   amount |-> amount,
   unit |-> UnitRef(kg_unit),
   flow_property |-> MassRef,
   is_input |-> is_input,
   is_quantitative_reference |-> is_qref,
   default_provider |-> IF provider_ref.kind = "None" THEN NoRef
                        ELSE [id |-> provider_ref.id, ref_type |-> "Process"],
   internal_id |-> 0]

\* "for i, ex in enumerate(exchanges, start=1): ex.internal_id = i"
RECURSIVE AssignIds(_, _)
AssignIds(exchanges, i) ==
  IF i > Len(exchanges) THEN exchanges
  ELSE AssignIds([exchanges EXCEPT ![i].internal_id = i], i + 1)

\* the process create_process(name, description, exchanges) builds and puts
create_processNoIds(name, description, exchanges) ==
  [name |-> name, description |-> description,
   process_type |-> "UNIT_PROCESS",
   exchanges |-> exchanges,
   last_internal_id |-> Len(exchanges)]
create_process(name, description, exchanges) ==
  [name |-> name, description |-> description,
   process_type |-> "UNIT_PROCESS",
   exchanges |-> AssignIds(exchanges, 1),
   last_internal_id |-> Len(exchanges)]

\* the flow create_flow(name) builds and puts
create_flowNoReference(name) ==
  [name |-> name, flow_type |-> "PRODUCT_FLOW",
   flow_properties |->
     << [flow_property |-> MassRef, conversion_factor |-> 1,
         is_ref_flow_property |-> FALSE] >>]
create_flow(name) ==
  [name |-> name, flow_type |-> "PRODUCT_FLOW",
   flow_properties |->
     << [flow_property |-> MassRef, conversion_factor |-> 1,
         is_ref_flow_property |-> TRUE] >>]

\* the exchange lists create_process is called with: exchanges as
\* make_exchange leaves them
ScriptExchanges ==
  {make_exchange([kind |-> "Ref", id |-> f], 2, i, FALSE,
                 [kind |-> "None", id |-> "p1"], script.kg_unit) :
     f \in {"f1", "f2"}, i \in BOOLEAN}

ScriptFrame == UNCHANGED <<ServerVars, mc, lib>>

MassNotFound == "ValueError: Mass flow property not found in database"

\* "Get Standard References": the Mass property, its unit group, the kg unit
ScriptLookup ==
  /\ script.pc = "start"
  /\ \E found \in {"found", "none", "fail"},
        units \in Lists({"kg", "g"}, MaxUnits), remote \in {"ok", "fail"} :
       script' =
         IF found = "fail" THEN Aborted("lookup", <<>>, <<>>, "Exception")
         ELSE IF found = "none"
         THEN Aborted("lookup", <<>>, <<>>, MassNotFound)
         ELSE IF remote = "fail"
         THEN [Aborted("lookup", <<>>, <<>>, "Exception") EXCEPT
                 !.mass_prop = TRUE]
         ELSE IF units = <<>>
         THEN [Aborted("lookup", <<>>, <<>>, "IndexError") EXCEPT
                 !.mass_prop = TRUE]
         ELSE [script EXCEPT !.pc = "ready", !.mass_prop = TRUE,
                             !.kg_unit = FirstNamed(units, 1, "kg")]
  /\ ScriptFrame

\* a call of find_flow_by_keywords
ScriptFindFlow ==
  /\ script.pc = "ready"
  /\ \E keywords \in Lists(Strs(MaxKwLen), MaxKeywords),
        names \in Lists(Strs(MaxNameLen), MaxNames),
        max_results \in 1..MaxShown :
       script' = Ran("find_flow_by_keywords",
                     [keywords |-> keywords, names |-> names,
                      max_results |-> max_results],
                     find_flow_by_keywords(keywords, max_results, names),
                     <<>>)
  /\ ScriptFrame

\* client.get_descriptors raises inside find_flow_by_keywords
ScriptFindFlowFails ==
  /\ script.pc = "ready"
  /\ \E keywords \in Lists(Strs(MaxKwLen), MaxKeywords) :
       script' = Aborted("find_flow_by_keywords", [keywords |-> keywords],
                         <<>>, "Exception")
  /\ ScriptFrame

\* a call of find_best_provider
ScriptFindBestProvider ==
  /\ script.pc = "ready"
  /\ \E providers \in Lists(ProviderElems, MaxProviders),
        fetch \in {"ok", "fail"} :
       /\ fetch = "fail" => providers = <<>>
       /\ script' = Ran("find_best_provider",
                        [providers |-> providers, fetch |-> fetch],
                        find_best_provider(providers, fetch), <<>>)
  /\ ScriptFrame

\* a call of make_exchange
ScriptMakeExchange ==
  /\ script.pc = "ready"
  /\ \E flow_ref \in FlowArgs, amount \in Amounts, is_input \in BOOLEAN,
        is_qref \in BOOLEAN, provider_ref \in ProviderArgs :
       script' = Ran("make_exchange",
                     [flow_ref |-> flow_ref, amount |-> amount,
                      is_input |-> is_input, is_qref |-> is_qref,
                      provider_ref |-> provider_ref],
                     make_exchange(flow_ref, amount, is_input, is_qref,
                                   provider_ref, script.kg_unit),
                     <<>>)
  /\ ScriptFrame

\* a call of create_process: the process is put, and the put may raise
ScriptCreateProcess ==
  /\ script.pc = "ready"
  /\ \E exchanges \in Lists(ScriptExchanges, MaxExchanges),
        put \in {"ok", "fail"} :
       LET process == create_process("P", "", exchanges) IN
       script' = IF put = "ok"
                 THEN Ran("create_process", [exchanges |-> exchanges],
                          process, <<process>>)
                 ELSE Aborted("create_process", [exchanges |-> exchanges],
                              <<process>>, "Exception")
  /\ ScriptFrame

\* a call of create_flow: the flow is put, and the put may raise
ScriptCreateFlow ==
  /\ script.pc = "ready"
  /\ \E name \in {"PET bottle", "PC bottle"}, put \in {"ok", "fail"} :
       LET flow == create_flow(name) IN
       script' = IF put = "ok"
                 THEN Ran("create_flow", [name |-> name], flow, <<flow>>)
                 ELSE Aborted("create_flow", [name |-> name], <<flow>>,
                              "Exception")
  /\ ScriptFrame

\* the script goes on to its next statement
ScriptContinue ==
  /\ script.pc = "ran"
  /\ script' = [script EXCEPT !.pc = "ready", !.op = "", !.in = <<>>,
                              !.out = <<>>, !.puts = <<>>]
  /\ ScriptFrame

NextScript ==
  \/ ScriptLookup
  \/ ScriptFindFlow
  \/ ScriptFindFlowFails
  \/ ScriptFindBestProvider
  \/ ScriptMakeExchange
  \/ ScriptCreateProcess
  \/ ScriptCreateFlow
  \/ ScriptContinue

SpecScript == Init /\ [][NextScript]_vars

(* ============================ properties =============================== *)
InHandler(t) == inv[t].pc \notin {"idle", "submitted"}

\* task t leaves the statement group at label l in this step
Leaves(t, l) == inv[t].pc = l /\ inv'[t].pc # l

\* C1: dispose_result with a result_id that is not a key of the table
\* answers {success:false, error:"Result <id> not found"} without an
\* exception, issues no release and leaves the table unchanged.
C1_DisposeUnknown ==
  [][\A t \in Tasks :
       (/\ Leaves(t, "dispose_check")
        /\ inv[t].args.isDict
        /\ inv[t].args.result_id # "missing"
        /\ inv[t].args.result_id \notin DOMAIN _active_results)
       => /\ inv'[t].pc = "done"
          /\ inv'[t].exc = ""
          /\ inv'[t].resp.success = FALSE
          /\ inv'[t].resp.keys = {"success", "error"}
          /\ inv'[t].resp.error =
               "Result " \o inv[t].args.result_id \o " not found"
          /\ inv'[t].calls = <<>>
          /\ _active_results' = _active_results
          /\ releases' = releases
          /\ tried' = tried]_vars

\* an unknown key was answered "not found" while the table held a result
C1_Witness ==
  \E t \in Tasks :
    /\ inv[t].pc = "done"
    /\ inv[t].tool = "dispose_result"
    /\ inv[t].resp.error = "Result unknown not found"
    /\ DOMAIN _active_results # {}

\* C2: whenever no call is in progress, every handle of the table has had
\* its key given to a caller as result_id.
C2_EveryHandleAnnounced ==
  (\A t \in Tasks : ~InHandler(t))
    => \A k \in DOMAIN _active_results : _active_results[k] \in announced

\* C3: no exception leaves call_tool; an exception inside a handler gives a
\* {success:false, error} response, and the response can be returned so
\* that the server goes on.
C3_NoRaise ==
  \A t \in Tasks :
    /\ inv[t].pc # "raised"
    /\ inv[t].exc # "" =>
         /\ inv[t].pc = "done"
         /\ inv[t].resp.success = FALSE
         /\ "error" \in inv[t].resp.keys
         /\ inv[t].resp.error # ""
    /\ inv[t].pc = "done" => ENABLED Return(t)

\* create_process without its "exchanges" argument was answered
C3_Witness ==
  \E t \in Tasks :
    /\ inv[t].pc = "done"
    /\ inv[t].tool = "create_process"
    /\ inv[t].exc = "KeyError"
    /\ inv[t].resp.success = FALSE

\* C4: a call of a tool of the catalog is never answered "Unknown tool".
C4_EveryListedToolHandled ==
  \A t \in Tasks :
    (inv[t].pc = "done" /\ inv[t].tool \in list_tools)
      => inv[t].resp.error # "Unknown tool: " \o inv[t].tool

\* C5: every response has the success field; a failure has the error string
\* and nothing else, a success has a payload and no error field.
C5_ResponseShape ==
  \A t \in Tasks :
    inv[t].pc = "done" =>
      LET r == inv[t].resp IN
      /\ "success" \in r.keys
      /\ ~r.success => r.keys = {"success", "error"} /\ r.error # ""
      /\ r.success =>
           "error" \notin r.keys /\ r.keys \ {"success"} # {} /\ r.error = ""

\* search_impact_methods answered that no method was found
C5_Witness ==
  \E t \in Tasks :
    /\ inv[t].pc = "done"
    /\ inv[t].tool = "search_impact_methods"
    /\ inv[t].exc = ""
    /\ ~inv[t].resp.success

\* the handle a dispose_result call at its release step is about
TargetOf(t) == _active_results[inv[t].rid]

AtRelease(t) ==
  /\ Leaves(t, "dispose_release")
  /\ inv[t].rid \in DOMAIN _active_results

\* C6 as stated: the first dispose_result(r) after a successful
\* calculate_impacts releases the handle, removes r and answers success.
C6_FirstDisposeSucceeds ==
  [][\A t \in Tasks :
       (AtRelease(t) /\ TargetOf(t) \in announced /\ TargetOf(t) \notin tried)
       => /\ inv'[t].resp.success
          /\ inv[t].rid \notin DOMAIN _active_results'
          /\ releases'[TargetOf(t)] = 1]_vars

\* C6 amended: dispose_result(r) of a tracked key calls release once on the
\* handle stored under r; when the release returns, r is removed and the
\* answer is success; when it raises, r stays and the answer is a failure;
\* no handle has two releases that returned, and no handle whose release
\* returned is in the table (so a later dispose_result(r) finds nothing).
C6_DisposeOnce ==
  /\ [](\A h \in Handles : releases[h] <= 1)
  /\ [](\A k \in DOMAIN _active_results : releases[_active_results[k]] = 0)
  /\ [][\A t \in Tasks :
          AtRelease(t) =>
            LET h == TargetOf(t) IN
            /\ inv'[t].pc = "done"
            /\ Len(inv'[t].calls) = 1
            /\ inv'[t].calls[1][1] = <<"dispose", 0>>
            /\ inv[t].h = h
            /\ h \in tried'
            /\ \A g \in Handles \ {h} : releases'[g] = releases[g]
            /\ IF inv'[t].calls[1][2] = "ok"
               THEN /\ releases'[h] = releases[h] + 1
                    /\ inv[t].rid \notin DOMAIN _active_results'
                    /\ inv'[t].resp.success
               ELSE /\ releases'[h] = releases[h]
                    /\ _active_results' = _active_results
                    /\ ~inv'[t].resp.success]_vars

\* a result whose key the caller got was released and left the table
C6_Witness ==
  \E t \in Tasks :
    /\ inv[t].pc = "done"
    /\ inv[t].tool = "dispose_result"
    /\ inv[t].resp.success
    /\ inv[t].h \in announced
    /\ releases[inv[t].h] = 1
    /\ inv[t].rid \notin DOMAIN _active_results

\* C7: within one invocation no call site issues its remote call twice, and
\* a failed remote call is the last call of the invocation and is reported.
C7_NoRetry ==
  \A t \in Tasks :
    LET c == inv[t].calls IN
    /\ \A i, j \in 1..Len(c) : i # j => c[i][1] # c[j][1]
    /\ \A i \in 1..Len(c) :
         c[i][2] = "fail" =>
           /\ i = Len(c)
           /\ inv[t].pc = "done"
           /\ inv[t].exc = "RemoteError"
           /\ ~inv[t].resp.success

\* a calculation failed after the lookup of its method had succeeded
C7_Witness ==
  \E t \in Tasks :
    /\ inv[t].pc = "done"
    /\ inv[t].tool = "calculate_impacts"
    /\ Len(inv[t].calls) = 2
    /\ inv[t].calls[2] = <<(<<"simple_calculation", 0>>), "fail">>

\* C8 as stated: once the creation of the client has failed at startup, no
\* tool call is served and the creation is not attempted again.
C8_ConnectionFailureFatal ==
  [][startupFailed =>
       /\ connectAttempts' = connectAttempts
       /\ \A t \in Tasks : ~InHandler(t) => ~InHandler(t)']_vars

\* C8 amended: a connection failure is not fatal and is retried by later
\* calls: main() runs the server whatever the startup test gave; a handler
\* attempts the creation exactly when there is no client yet; a failed
\* attempt fails that call only, and leaves no client.
C8_ConnectionRetried ==
  [][/\ phase' # phase => phase' = "serving"
     /\ connectAttempts' # connectAttempts =>
          _client = 0 /\ connectAttempts' = connectAttempts + 1
     /\ \A t \in Tasks :
          Leaves(t, "get_client") =>
            /\ connectAttempts' =
                 connectAttempts + (IF _client = 0 THEN 1 ELSE 0)
            /\ inv'[t].exc = "ConnectError" =>
                 /\ _client' = 0
                 /\ inv'[t].pc = "done"
                 /\ ~inv'[t].resp.success
            /\ inv'[t].exc = "" => _client' # 0]_vars

\* after a failed startup connection a tool call created the client
C8_Witness ==
  /\ startupFailed
  /\ phase = "serving"
  /\ _client # 0
  /\ \E t \in Tasks : inv[t].pc = "body"

\* C9: at most one tool invocation is between its dispatch and its
\* response, and while dispose_result is between its membership test and
\* its delete no step of another invocation touches the table.
C9_OneAtATime ==
  /\ [](Cardinality({t \in Tasks : InHandler(t)}) <= 1)
  /\ [][\A t \in Tasks :
          (inv[t].pc \in {"dispose_release", "calc_impacts"}
             /\ inv'[t] = inv[t])
          => _active_results' = _active_results]_vars

\* a dispose_result is between test and delete while another call waits
C9_Witness ==
  \E t, u \in Tasks :
    /\ t # u
    /\ inv[t].pc = "dispose_release"
    /\ inv[u].pc = "submitted"

\* C10: at most one client object is created, and a handler that has got
\* its client holds the global one.
C10_OneClient ==
  /\ clientsCreated <= 1
  /\ \A t \in Tasks :
       /\ inv[t].client # 0 => inv[t].client = _client
       /\ inv[t].pc = "body" => inv[t].client # 0

\* a handler uses the client main() created, after several calls
C10_Witness ==
  /\ ~startupFailed
  /\ clientsCreated = 1
  /\ obtained >= 1
  /\ \E t \in Tasks : inv[t].pc = "body" /\ inv[t].client = _client

\* C11: the client is connected to the host of OPENLCA_HOST (localhost when
\* unset) and the port of OPENLCA_PORT (8080 when unset).
C11_EndpointFromEnv ==
  _client # 0 =>
    endpoint = [host |-> Getenv(environ.host, "localhost"),
                port |-> ParseInt(Getenv(environ.port, "8080"))]
(* ------------------------ the script's operations ---------------------- *)
ScriptRan(op) == script.pc = "ran" /\ script.op = op

\* the ids of the references in a list
IdsOf(refs) == {refs[i].id : i \in 1..Len(refs)}

\* keyword kw, case-folded, occurs in name, case-folded, at some offset
OccursFolded(kw, name) ==
  \E d \in 0..(Len(name) - Len(kw)) :
    \A j \in 1..Len(kw) : LowerChar(kw[j]) = LowerChar(name[d + j])

\* C12: the keyword search includes the candidate name N in its match set
\* if and only if every keyword of K, lower-cased, is a substring of N,
\* lower-cased; and any reordering of K gives the same match set.
C12_MatchIffAllKeywords ==
  ScriptRan("find_flow_by_keywords") =>
    LET K == script.in.keywords
        names == script.in.names
        matched == IdsOf(script.out.matches)
    IN /\ \A n \in 1..Len(names) :
            (n \in matched) <=>
              \A k \in 1..Len(K) : OccursFolded(K[k], names[n])
       /\ \A i \in 1..Len(script.out.matches) :
            script.out.matches[i].name = names[script.out.matches[i].id]
       /\ \A p \in Permutations(1..Len(K)) :
            IdsOf(find_flow_by_keywords([i \in 1..Len(K) |-> K[p[i]]],
                                        script.in.max_results,
                                        names).matches) = matched

\* a search with two different keywords, one of them written in upper case
\* and found beyond the start of a lower-case name, that matches one
\* candidate and not the other
C12_Witness ==
  /\ ScriptRan("find_flow_by_keywords")
  /\ script.in.keywords = << <<"A">>, <<"b">> >>
  /\ script.in.names = << <<"b", "a">>, <<"b", "b">> >>
  /\ IdsOf(script.out.matches) = {1}
\* the candidates of the store that carry every keyword, in store order
RECURSIVE MatchingIds(_, _, _)
MatchingIds(K, names, n) ==
  IF n = 0 THEN <<>>
  ELSE LET before == MatchingIds(K, names, n - 1) IN
       IF \A k \in 1..Len(K) : OccursFolded(K[k], names[n])
       THEN Append(before, n) ELSE before

Min(a, b) == IF a <= b THEN a ELSE b

AssociatedProcess(e) ==
  CASE e.provider # Absent -> e.provider
    [] e.provider = Absent /\ e.process # Absent -> e.process
    [] e.provider = Absent /\ e.process = Absent -> e.self

\* C14 (as stated): find_best_provider returns the process reference
\* associated with the first element of the provider list the store
\* returns, and returns none exactly when that list is empty.
C14_NoneIffEmptyList ==
  ScriptRan("find_best_provider") =>
    /\ script.in.providers # <<>> =>
         script.out = AssociatedProcess(script.in.providers[1])
    /\ script.out = None <=>
         (script.in.fetch = "ok" /\ script.in.providers = <<>>)

\* C14 (amended): when the store returns a provider list, find_best_provider
\* returns the process reference associated with its first element, or none
\* when the list is empty; when fetching the list raises, the exception is
\* swallowed and none is returned as well. None is returned in no other case.
C14_NoneIffEmptyOrFailed ==
  ScriptRan("find_best_provider") =>
    /\ (script.in.fetch = "ok" /\ script.in.providers # <<>>) =>
         /\ script.out = AssociatedProcess(script.in.providers[1])
         /\ script.out # None
    /\ (script.in.fetch = "fail" \/ script.in.providers = <<>>) =>
         script.out = None

\* a list of two providers whose first element carries both attributes
C14_Witness ==
  /\ ScriptRan("find_best_provider")
  /\ Len(script.in.providers) = 2
  /\ script.in.providers[1].provider = "p2"
  /\ script.in.providers[1].process = "p1"
  /\ script.in.providers[2].provider = "p1"
  /\ script.out = "p2"
\* create_process has built its process and put it
ProcessPut == script.op = "create_process" /\ script.pc \in {"ran", "aborted"}

\* C15: create_process gives the exchange at position i of the list the
\* internal identifier i, so the identifiers of the submitted process are
\* pairwise distinct and exactly 1..n; the last internal id is n, the number
\* of exchanges (0 for an empty list); the exchanges are submitted in their
\* input order.
C15_SequentialInternalIds ==
  ProcessPut =>
    LET given == script.in.exchanges
        n == Len(given)
    IN /\ Len(script.puts) = 1
       /\ LET sent == script.puts[1].exchanges IN
          /\ Len(sent) = n
          /\ \A i \in 1..n :
               /\ sent[i].internal_id = i
               /\ [sent[i] EXCEPT !.internal_id = 0] = given[i]
          /\ \A i, j \in 1..n :
               i # j => sent[i].internal_id # sent[j].internal_id
          /\ {sent[i].internal_id : i \in 1..n} = 1..n
       /\ script.puts[1].last_internal_id = n
       /\ n = 0 => script.puts[1].last_internal_id = 0
       /\ script.pc = "ran" => script.out = script.puts[1]

\* a process of two different exchanges has been submitted
C15_Witness ==
  /\ ScriptRan("create_process")
  /\ Len(script.in.exchanges) = 2
  /\ script.in.exchanges[1] # script.in.exchanges[2]
  /\ script.puts[1].exchanges[2].internal_id = 2
\* C16: make_exchange is pure construction: it issues no remote call and
\* changes no stored entity; the exchange it returns always has the mass
\* property and the kg unit, carries amount, is_input and
\* is_quantitative_reference exactly as given, zero and negative amounts
\* included, and has a default provider if and only if a provider was passed.
C16_PureConstruction ==
  ScriptRan("make_exchange") =>
    /\ script.puts = <<>>
    /\ script.err = ""
    /\ script.out.flow_property = MassRef
    /\ script.out.unit = UnitRef("kg")
    /\ script.out.amount = script.in.amount
    /\ script.out.is_input = script.in.is_input
    /\ script.out.is_quantitative_reference = script.in.is_qref
    /\ script.out.default_provider # NoRef <=>
         script.in.provider_ref.kind # "None"
\* create_flow has built its flow and put it
FlowPut == script.op = "create_flow" /\ script.pc \in {"ran", "aborted"}

\* C17: create_flow submits exactly one flow per call, tagged as a product
\* flow and holding exactly one flow-property factor, which references the
\* Mass property, has conversion factor 1.0 and is marked as the reference
\* property; when the Mass property cannot be found in the store the script
\* fails with a not-found error, and nothing is submitted then or later.
C17_OneProductFlow ==
  /\ [](FlowPut =>
         /\ script.mass_prop
         /\ Len(script.puts) = 1
         /\ script.puts[1].name = script.in.name
         /\ script.puts[1].flow_type = "PRODUCT_FLOW"
         /\ Len(script.puts[1].flow_properties) = 1
         /\ script.puts[1].flow_properties[1].flow_property.name = "Mass"
         /\ script.puts[1].flow_properties[1].flow_property.ref_type
              = "FlowProperty"
         /\ script.puts[1].flow_properties[1].conversion_factor = 1
         /\ script.puts[1].flow_properties[1].is_ref_flow_property = TRUE)
  /\ [](~script.mass_prop =>
         /\ script.puts = <<>>
         /\ script.pc \in {"start", "aborted"})
  /\ [](script.err = MassNotFound =>
         /\ ~script.mass_prop
         /\ script.pc = "aborted"
         /\ script.op = "lookup")
  /\ [][script.pc = "aborted" => script' = script]_vars

\* a flow has been created and put
C17_Witness ==
  /\ ScriptRan("create_flow")
  /\ script.in.name = "PET bottle"
  /\ script.puts = <<script.out>>
(* --------------------------- failed lookups ---------------------------- *)
\* the remote calls a lookup stands before
GuardedSites ==
  {<<"find_providers", 0>>, <<"create_product_system", 0>>,
   <<"simple_calculation", 0>>}

\* the search by name of task t has come back empty
NameMatchesNothing(t) ==
  /\ inv[t].tool \in {"find_providers", "create_product_system"}
  /\ inv[t].args.ident = "name"
  /\ \E i \in 1..Len(inv[t].calls) : inv[t].calls[i][2] = "empty"

\* task t was called without one of its pairs of alternative inputs
NoIdentifyingInput(t) ==
  \/ /\ inv[t].tool \in {"find_providers", "create_product_system"}
     /\ inv[t].args.ident = "none"
  \/ /\ inv[t].tool = "calculate_impacts"
     /\ inv[t].args.ident = "none" \/ inv[t].args.method = "none"

\* C18: a failed lookup is a {success:false, error} response, not an
\* exception, and it stops the operation: find_providers with a flow_name
\* that matches no flow, create_product_system with a process_name that
\* matches no process, and find_providers, create_product_system or
\* calculate_impacts called with neither of its alternative identifying
\* inputs, return success:false and issue no provider lookup, no
\* product-system creation and no calculation.
C18_FailedLookupStops ==
  \A t \in Tasks :
    (/\ InHandler(t)
     /\ inv[t].args.isDict
     /\ NameMatchesNothing(t) \/ NoIdentifyingInput(t))
    => /\ \A i \in 1..Len(inv[t].calls) :
            inv[t].calls[i][1] \notin GuardedSites
       /\ inv[t].pc \in {"get_client", "body", "done"}
       /\ inv[t].h = 0
       /\ inv[t].pc = "done" =>
            /\ inv[t].resp.success = FALSE
            /\ inv[t].resp.keys = {"success", "error"}
            /\ inv[t].resp.error # ""
            /\ inv[t].client # 0 => inv[t].exc = ""

\* find_providers was answered "Flow not found" after an empty search
C18_Witness ==
  \E t \in Tasks :
    /\ inv[t].pc = "done"
    /\ inv[t].tool = "find_providers"
    /\ inv[t].args.ident = "name"
    /\ inv[t].calls = << <<(<<"find_flows", 0>>), "empty">> >>
    /\ inv[t].resp = ErrorResponse("Flow not found")
(* ---------------------------- run_monte_carlo -------------------------- *)
\* C19: during run_monte_carlo the result of iteration i is released before
\* the calculation of iteration i+1 is requested, so at every point of a run
\* at most one result handle obtained by the run is unreleased, and after a
\* run of N successful iterations exactly N results were obtained and all N
\* were released.
C19_ReleaseBeforeNextDraw ==
  /\ Cardinality(mc.held) <= 1
  /\ mc.held \subseteq {mc.i}
  /\ mc.pc = "calculate" => mc.held = {} /\ mc.released = mc.i - 1
  /\ mc.obtained - mc.released = Cardinality(mc.held)
  /\ mc.pc = "done" =>
       /\ mc.obtained = mc.iterations
       /\ mc.released = mc.iterations
       /\ mc.held = {}

\* a run of MaxIterations successful iterations has ended
C19_Witness ==
  /\ mc.pc = "done"
  /\ mc.iterations = MaxIterations
  /\ mc.obtained = MaxIterations
  /\ mc.released = MaxIterations

\* C20: if the remote call of any iteration of run_monte_carlo fails, the
\* whole operation fails: no statistics mapping is returned for the
\* iterations that completed, and no further iteration is requested after
\* the failing one.
C20_FailureFailsRun ==
  /\ [](mc.failedCall # "" => mc.pc = "failed" /\ mc.out = "error")
  /\ [](mc.out = "stats" =>
         mc.failedCall = "" /\ Len(mc.samples) = mc.iterations)
  /\ [][mc.pc = "failed" => mc' = McIdle]_vars
  /\ [][mc'.failedCall # "" /\ mc.failedCall = "" =>
         /\ mc'.i = mc.i
         /\ mc'.obtained = mc.obtained
         /\ mc'.samples = mc.samples]_vars

\* the draw of the second iteration failed after a complete first iteration
C20_Witness ==
  /\ mc.pc = "failed"
  /\ mc.failedCall = "calculate"
  /\ mc.i = 2
  /\ Len(mc.samples) = 1
  /\ mc.released = 1
(* ------------------------- get_top_contributors ------------------------ *)
LibRan(op) == lib.pc = "returned" /\ lib.op = op

\* the items of the input whose share is at least min_share
KeptItems(amounts, min_share) ==
  LET total == SumAmounts(amounts, Len(amounts)) IN
  {k \in 1..Len(amounts) :
     IF total = 0 THEN min_share = 0
     ELSE IF total > 0 THEN amounts[k] * ShareDen >= min_share * total
     ELSE (-amounts[k]) * ShareDen >= min_share * (-total)}

\* what C21 says of every call, the permutation sentence apart
TopContributorsContract ==
  LET amounts == lib.in.amounts
      n == lib.in.n
      out == lib.out
      total == SumAmounts(amounts, Len(amounts))
      kept == KeptItems(amounts, lib.in.min_share)
  IN /\ Len(out) <= n
     /\ Len(out) = Min(n, Cardinality(kept))
     /\ \A k \in 1..Len(out) :
          /\ out[k].item \in kept
          /\ out[k].amount = amounts[out[k].item]
          /\ out[k].share.den > 0
          /\ total = 0 => out[k].share.num = 0
          /\ total # 0 =>
               out[k].share.num * total = out[k].amount * out[k].share.den
          /\ out[k].share.num * ShareDen >= lib.in.min_share * out[k].share.den
     /\ \A j, k \in 1..Len(out) :
          j < k =>
            /\ out[j].share.num * out[k].share.den
                 >= out[k].share.num * out[j].share.den
            /\ out[j].share.num * out[k].share.den
                 = out[k].share.num * out[j].share.den
               => out[j].item < out[k].item

InScenario == lib.op = "run_scenario_analysis"

\* the steps of the first k values, in order
RECURSIVE ScenarioSteps(_)
ScenarioSteps(k) ==
  IF k = 0 THEN <<>>
  ELSE ScenarioSteps(k - 1) \o
       << <<"override", k>>, <<"calculate", k>>, <<"totals", k>>,
          <<"release", k>> >>

\* the distinct values of the first k, in the order of their first occurrence
RECURSIVE FirstOccurrences(_, _)
FirstOccurrences(values, k) ==
  IF k = 0 THEN <<>>
  ELSE LET before == FirstOccurrences(values, k - 1) IN
       IF \E j \in 1..(k - 1) : values[j] = values[k] THEN before
       ELSE Append(before, values[k])

\* C22: run_scenario_analysis processes the values in input order, and for
\* each value performs, in this order, the parameter override, one simple
\* calculation, the reading of total impacts and the release of that result
\* before the next value is started; the returned mapping has one entry per
\* value, iterated in input order; when the named parameter is not found it
\* fails at the first value without running the remaining ones.
C22_ScenarioOrder ==
  InScenario =>
    LET values == lib.in.values
        all == ScenarioSteps(Len(values))
    IN /\ Len(lib.calls) <= Len(all)
       /\ lib.calls = SubSeq(all, 1, Len(lib.calls))
       /\ lib.held \subseteq {lib.i}
       /\ lib.pc = "sc_override" =>
            lib.held = {} /\ Len(lib.calls) = 4 * (lib.i - 1)
       /\ lib.pc = "returned" =>
            /\ lib.calls = all
            /\ lib.held = {}
            /\ [k \in 1..Len(lib.out) |-> lib.out[k][1]]
                 = FirstOccurrences(values, Len(values))
            /\ \A k \in 1..Len(values) :
                 Cardinality({j \in 1..Len(lib.out) :
                                lib.out[j][1] = values[k]}) = 1
       /\ (~lib.in.found /\ values # <<>>) =>
            /\ lib.pc \in {"sc_override", "failed"}
            /\ lib.i = 1
            /\ lib.pc = "failed" =>
                 /\ lib.calls = << <<"override", 1>> >>
                 /\ lib.err = "parameter not found"
                 /\ lib.out = <<>>

\* two different values have been analysed and the mapping returned
C22_Witness ==
  /\ InScenario
  /\ lib.pc = "returned"
  /\ lib.in.values = <<500, 100>>
  /\ Len(lib.calls) = 8
  /\ Len(lib.out) = 2
  /\ lib.out[1][1] = 500
(* ------------------------- export_impacts_to_csv ----------------------- *)
InExport == lib.op = "export_impacts_to_csv"

\* C23: export_impacts_to_csv never raises on a serialization failure: it
\* returns false in that case and true when the file was written, so a loop
\* of exports over several inputs runs every export even when one of them
\* fails.
C23_ExportNeverRaises ==
  InExport =>
    /\ lib.pc # "failed"
    /\ lib.err = ""
    /\ Len(lib.out) = Len(lib.calls)
    /\ \A k \in 1..Len(lib.out) :
         /\ lib.calls[k] = <<"export", k>>
         /\ lib.out[k] = (lib.in.inputs[k] = "written")
    /\ lib.pc = "returned" => Len(lib.out) = Len(lib.in.inputs)
    /\ lib.pc = "export" => Len(lib.out) = lib.i - 1

\* a loop of three exports whose second failed has run to its end
C23_Witness ==
  /\ InExport
  /\ lib.pc = "returned"
  /\ lib.in.inputs = <<"written", "fails", "written">>
  /\ lib.out = <<TRUE, FALSE, TRUE>>
(* ----------------- the exchange loop of handle_create_process ---------- *)
\* name, lower-cased, holds text, lower-cased
NameContains(name, text) == OccursFolded(text, name)

\* C24: in the create_process tool each exchange's flow_id is accepted as a
\* flow ID or a flow name: when it is the ID of an existing flow that flow is
\* the one used, whatever flow names exist in the store; when it is not an
\* ID, the flow used is the first flow whose name contains it; the handler
\* creates exactly one exchange per input item, in input order, and sets a
\* provider only on items with provider_id.
C24_FlowIdOrName ==
  LibRan("handle_create_process") =>
    LET items == lib.in.exchanges
        store == lib.in.store
    IN /\ Len(lib.out) = Len(items)
       /\ \A k \in 1..Len(items) :
            LET isId == \E f \in 1..Len(store) : store[f].id = items[k].flow_id
                named == {f \in 1..Len(store) :
                            NameContains(store[f].name, items[k].flow_id)}
            IN /\ isId => lib.out[k].flow.id = items[k].flow_id
               /\ (~isId /\ named # {}) =>
                    \E f \in named :
                      /\ \A g \in named : f <= g
                      /\ lib.out[k].flow.id = store[f].id
               /\ lib.out[k].provider # None <=> items[k].has_provider
(* ------------------------ the active-results table --------------------- *)
\* the lookup of the impact method of task t has yielded nothing
MethodNotResolved(rec) ==
  /\ rec.tool = "calculate_impacts"
  /\ \E i \in 1..Len(rec.calls) :
       /\ rec.calls[i][1] \in {<<"get_method", 0>>, <<"find_impact_method", 0>>}
       /\ rec.calls[i][2] = "empty"

\* C25: when calculate_impacts cannot resolve the impact method (the lookup
\* by method_id or by method_keywords yields nothing) it returns
\* {success:false, error:"Impact method not found"}, requests no calculation
\* and adds no entry to the active-results table.
C25_MethodNotFound ==
  /\ [](\A t \in Tasks :
          MethodNotResolved(inv[t]) =>
            /\ inv[t].pc = "done"
            /\ inv[t].resp = ErrorResponse("Impact method not found")
            /\ inv[t].exc = ""
            /\ Len(inv[t].calls) = 1
            /\ inv[t].h = 0
            /\ inv[t].rid = "")
  /\ [][\A t \in Tasks :
          (MethodNotResolved(inv[t]) \/ MethodNotResolved(inv'[t])) =>
            /\ _active_results' = _active_results
            /\ obtained' = obtained]_vars

\* a calculation by method keywords that match no method was answered
C25_Witness ==
  \E t \in Tasks :
    /\ inv[t].pc = "done"
    /\ inv[t].tool = "calculate_impacts"
    /\ inv[t].args.method = "keywords"
    /\ inv[t].calls = << <<(<<"find_impact_method", 0>>), "empty">> >>
    /\ inv[t].resp = ErrorResponse("Impact method not found")
\* C26: only calculate_impacts adds entries to the active-results table and
\* only dispose_result removes them: every other tool call leaves the table
\* exactly as it was, and an entry stays in the table, unchanged, until a
\* dispose_result call names its key.
C26_TableFrame ==
  [][/\ \A k \in DOMAIN _active_results' \ DOMAIN _active_results :
          \E t \in Tasks :
            /\ inv[t].tool = "calculate_impacts"
            /\ Leaves(t, "calc_run")
            /\ inv'[t].rid = k
     /\ \A k \in DOMAIN _active_results \ DOMAIN _active_results' :
          \E t \in Tasks :
            /\ inv[t].tool = "dispose_result"
            /\ Leaves(t, "dispose_release")
            /\ inv[t].args.result_id = k
     /\ \A k \in DOMAIN _active_results \cap DOMAIN _active_results' :
          _active_results'[k] = _active_results[k]
     /\ \A t \in Tasks :
          (/\ inv'[t] # inv[t]
           /\ inv[t].tool \notin {"calculate_impacts", "dispose_result"}
           /\ inv'[t].tool \notin {"calculate_impacts", "dispose_result"})
          => _active_results' = _active_results]_vars

\* a search was answered while two results were in the table
C26_Witness ==
  /\ Cardinality(DOMAIN _active_results) = 2
  /\ \E t \in Tasks :
       /\ inv[t].pc = "done"
       /\ inv[t].tool = "search_flows"
\* the handles the table holds
Tracked == {_active_results[k] : k \in DOMAIN _active_results}

\* the results obtained whose release has not returned
Unreleased == {h \in 1..obtained : releases[h] = 0}

\* C27: after any sequence of tool calls, the set of handles held in the
\* active-results table is exactly the set of results obtained by
\* calculate_impacts whose release has not yet completed successfully.
C27_TableIsUnreleased ==
  /\ Tracked = Unreleased
  /\ \A j, k \in DOMAIN _active_results :
       _active_results[j] = _active_results[k] => j = k

\* one result has been released, another is still in the table
C27_Witness ==
  /\ obtained = 2
  /\ \E h \in Handles : releases[h] = 1 /\ h \notin Tracked
  /\ \E h \in Handles : releases[h] = 0 /\ h \in Tracked
  /\ \A t \in Tasks : ~InHandler(t)
\* task t stores a new result in this step
Stores(t) == inv[t].tool = "calculate_impacts" /\ Leaves(t, "calc_run")
               /\ inv'[t].pc = "calc_impacts"

\* C28: the key calculate_impacts generates for a new result is never a key
\* already present in the active-results table, so storing a new result
\* never overwrites, and thereby never makes unreleasable, a result that is
\* still tracked.
C28_FreshKey ==
  [][\A t \in Tasks :
       Stores(t) =>
         /\ inv'[t].rid \notin DOMAIN _active_results
         /\ inv'[t].rid \in DOMAIN _active_results'
         /\ _active_results'[inv'[t].rid] = inv'[t].h
         /\ \A k \in DOMAIN _active_results :
              /\ k \in DOMAIN _active_results'
              /\ _active_results'[k] = _active_results[k]
         /\ Cardinality(DOMAIN _active_results')
              = Cardinality(DOMAIN _active_results) + 1]_vars

\* a second result has been stored next to one that is still tracked
C28_Witness ==
  \E t \in Tasks :
    /\ inv[t].pc = "calc_impacts"
    /\ inv[t].h = 2
    /\ Tracked = {1, 2}
    /\ Cardinality(DOMAIN _active_results) = 2
\* C29: a result_id identifies one result for the whole session: once the
\* result stored under key r has been disposed, no later calculate_impacts
\* stores a different result under the same key r, so a dispose_result(r)
\* repeated by a caller holding the old key can never release a result
\* produced by a later calculation.
C29_KeyNeverReused ==
  [][\A t \in Tasks : Stores(t) => inv'[t].rid \notin expired]_vars
\* the release called by task t raises in this step
ReleaseRaises(t) ==
  /\ AtRelease(t)
  /\ inv'[t].calls = << <<(<<"dispose", 0>>), "fail">> >>

\* C30: when the release call inside dispose_result(r) raises, the response
\* is {success:false, error} and the entry for r stays in the
\* active-results table, so the handle is still tracked and a later
\* dispose_result(r) calls release on it again.
C30_FailedReleaseKeepsEntry ==
  /\ [][\A t \in Tasks :
          ReleaseRaises(t) =>
            /\ inv'[t].pc = "done"
            /\ inv'[t].resp.success = FALSE
            /\ inv'[t].resp.keys = {"success", "error"}
            /\ inv'[t].resp.error # ""
            /\ _active_results' = _active_results
            /\ inv[t].rid \in DOMAIN _active_results'
            /\ _active_results'[inv[t].rid] = inv[t].h
            /\ releases' = releases]_vars
  /\ [](\A t \in Tasks :
          inv[t].pc = "dispose_release" =>
            /\ inv[t].rid \in DOMAIN _active_results
            /\ inv[t].h = _active_results[inv[t].rid])
  /\ [](\A h \in tried :
          releases[h] = 0 =>
            \E k \in DOMAIN _active_results : _active_results[k] = h)

\* a second dispose_result(r) is about to call release on a handle whose
\* first release raised
C30_Witness ==
  \E t \in Tasks :
    /\ inv[t].pc = "dispose_release"
    /\ inv[t].h \in tried
    /\ releases[inv[t].h] = 0
    /\ inv[t].rid \in DOMAIN _active_results
====
